---- MODULE Spec2Model ----
(***************************************************************************)
(* A model of the SceneResolver package: the payload normalisers of        *)
(* schemas.py, resolve_identity / ingest of resolver.py and the state      *)
(* store of state_store.py.                                                *)
(*                                                                         *)
(* Python values are modelled as follows.                                  *)
(*   str       a sequence of one-character strings, "Bob" = <<"B","o","b">>*)
(*   None      NoneStr where a str is expected, NoneTs where a timestamp   *)
(*             is expected                                                 *)
(*   dict      a function whose domain is the set of keys that are present *)
(*             (the empty dict is <<>>); dict keys are atomic strings      *)
(*   list      a sequence                                                  *)
(*   datetime  [aware, t]: t is the wall clock second of a naive value and *)
(*             the UTC second of an aware one                              *)
(*   an ISO-8601 string is [kind |-> "iso", n, suffix]: the second it      *)
(*             names and its trailing offset marker ("", "Z", "+00:00")    *)
(***************************************************************************)
EXTENDS Integers, Sequences, FiniteSets, TLC

VARIABLES
    profiles,   \* IDENTITY_PROFILES, loaded once at import
    tz,         \* the process's local UTC offset, in seconds
    disk,       \* the document at STATE_PATH
    call,       \* the last finished call: its input and what it returned
    pc,         \* overlapping ingestion: where each caller is
    local       \* overlapping ingestion: each caller's loaded SceneState

vars == <<profiles, tz, disk, call, pc, local>>

(***************************************************************************)
(* Python str and dict primitives                                          *)
(***************************************************************************)
NoneStr == <<"<None>">>

EmptyDict == <<>>

\* bool(s) for an Optional[str]
TruthyStr(s) == s # NoneStr /\ s # <<>>

\* a or b
OrStr(a, b) == IF TruthyStr(a) THEN a ELSE b

UpperToLower ==
    [A |-> "a", B |-> "b", C |-> "c", D |-> "d", E |-> "e", F |-> "f",
     G |-> "g", H |-> "h", I |-> "i", J |-> "j", K |-> "k", L |-> "l",
     M |-> "m", N |-> "n", O |-> "o", P |-> "p", Q |-> "q", R |-> "r",
     S |-> "s", T |-> "t", U |-> "u", V |-> "v", W |-> "w", X |-> "x",
     Y |-> "y", Z |-> "z"]

\* str.lower()
Lower(s) ==
    [i \in DOMAIN s |->
        IF s[i] \in DOMAIN UpperToLower THEN UpperToLower[s[i]] ELSE s[i]]

\* str.startswith(prefix)
StartsWith(s, prefix) ==
    /\ Len(s) >= Len(prefix)
    /\ SubSeq(s, 1, Len(prefix)) = prefix

\* d.get(k, default)
Get(d, k, default) == IF k \in DOMAIN d THEN d[k] ELSE default

\* d.update(e): the keys of e win
Update(d, e) == e @@ d

\* d.setdefault(k, v)
SetDefault(d, k, v) == IF k \in DOMAIN d THEN d ELSE (k :> v) @@ d

\* d with only the keys in ks
Restrict(d, ks) == [k \in (DOMAIN d) \cap ks |-> d[k]]

\* str(i) for a small non-negative int
Digits == <<"0", "1", "2", "3", "4", "5", "6", "7", "8", "9">>

RECURSIVE StrInt(_)
StrInt(i) ==
    IF i < 0 THEN <<"-">> \o StrInt(0 - i)
    ELSE IF i < 10 THEN <<Digits[i + 1]>>
    ELSE StrInt(i \div 10) \o <<Digits[(i % 10) + 1]>>

(***************************************************************************)
(* Timestamps (schemas.py, GeminiEvent._coerce_timestamp)                  *)
(***************************************************************************)
NoneTs == [kind |-> "none", n |-> 0, suffix |-> ""]

\* bool(v) of a raw timestamp value: None, 0 and "" are falsy
TruthyTs(v) ==
    CASE v.kind = "none"  -> FALSE
      [] v.kind = "empty" -> FALSE
      [] v.kind = "int"   -> v.n # 0
      [] OTHER            -> TRUE

OrTs(a, b) == IF TruthyTs(a) THEN a ELSE b

\* datetime.fromtimestamp(n): a naive value in local time
FromTimestamp(n, offset) == [aware |-> FALSE, t |-> n + offset]

\* value.replace("Z", "+00:00")
ReplaceZ(v) == [v EXCEPT !.suffix = IF @ = "Z" THEN "+00:00" ELSE @]

\* datetime.fromisoformat(s); a bare "Z" is not accepted
FromIsoFormat(v) ==
    IF v.kind = "iso" /\ v.suffix \in {"", "+00:00"}
    THEN [ok |-> TRUE, value |-> [aware |-> v.suffix = "+00:00", t |-> v.n]]
    ELSE [ok |-> FALSE, value |-> [aware |-> FALSE, t |-> 0]]

\* datetime.isoformat(), the form the state document stores
IsoFormat(dt) ==
    [kind |-> "iso", n |-> dt.t, suffix |-> IF dt.aware THEN "+00:00" ELSE ""]

\* the characters of an ISO string, for f-strings
IsoText(iso) ==
    <<"T">> \o StrInt(iso.n)
        \o (CASE iso.suffix = "Z" -> <<"Z">>
              [] iso.suffix = "+00:00" -> <<"+", "0", "0", ":", "0", "0">>
              [] OTHER -> <<>>)

CoerceTimestamp(value, offset) ==
    CASE value.kind = "datetime" ->
            [ok |-> TRUE,
             value |-> [aware |-> value.suffix # "", t |-> value.n]]
      [] value.kind = "int" ->
            [ok |-> TRUE, value |-> FromTimestamp(value.n, offset)]
      [] value.kind \in {"iso", "text", "empty"} ->
            FromIsoFormat(ReplaceZ(value))
      [] OTHER ->
            [ok |-> FALSE, value |-> [aware |-> FALSE, t |-> 0]]

(***************************************************************************)
(* schemas.py: the root validators and the fields pydantic then reads      *)
(***************************************************************************)
EntityKeys == {"id", "name", "type", "appearance", "attributes", "metadata"}

NormaliseFields(values) ==
    LET Appearance(d) == SetDefault(d, "appearance", Get(d, "looks", EmptyDict))
        Attributes(d) == SetDefault(d, "attributes", Get(d, "state", EmptyDict))
        Metadata(d) ==
            ("metadata" :> (Get(d, "metadata", EmptyDict)
                                @@ Restrict(d, (DOMAIN d) \ EntityKeys)))
                @@ Restrict(d, EntityKeys)
    IN  Metadata(Attributes(Appearance(values)))

\* GeminiEntity(**values): entity_id is read from its alias "id"
ParseEntity(values) ==
    LET Fields(data) ==
            [entity_id  |-> Get(data, "id", NoneStr),
             name       |-> Get(data, "name", NoneStr),
             type       |-> Get(data, "type", NoneStr),
             appearance |-> data.appearance,
             attributes |-> data.attributes,
             metadata   |-> data.metadata]
    IN  Fields(NormaliseFields(values))

EventKeys ==
    {"event_id", "id", "timestamp", "time", "event_time", "action", "verb",
     "summary", "description", "actors", "targets", "participants",
     "subjects", "entities", "metadata"}

\* data.get(k) is a non-empty list
HasList(d, k) == k \in DOMAIN d /\ d[k] # <<>>

\* [entry for entry in entities if entry.get("role") in roles]
RoleFilter(entities, roles) ==
    SelectSeq(entities, LAMBDA entry : Get(entry, "role", "") \in roles)

NormaliseEvent(values) ==
    LET EventId(d) ==
            ("event_id" :> OrStr(Get(d, "event_id", NoneStr),
                                 Get(d, "id", NoneStr))) @@ d
        Timestamp(d) ==
            ("timestamp" :> OrTs(OrTs(Get(d, "timestamp", NoneTs),
                                      Get(d, "time", NoneTs)),
                                 Get(d, "event_time", NoneTs))) @@ d
        Action(d) == SetDefault(d, "action", Get(d, "verb", NoneStr))
        Summary(d) == SetDefault(d, "summary", Get(d, "description", NoneStr))
        Actors(d) ==
            IF HasList(d, "actors") THEN d
            ELSE IF HasList(d, "participants")
                 THEN ("actors" :> d.participants) @@ d
            ELSE IF "subjects" \in DOMAIN d
                 THEN ("actors" :> d.subjects) @@ d
            ELSE d
        ActorLike(d, actor_like) ==
            IF actor_like # <<>> /\ ~HasList(d, "actors")
            THEN ("actors" :> actor_like) @@ d ELSE d
        TargetLike(d, target_like) ==
            IF target_like # <<>> THEN ("targets" :> target_like) @@ d ELSE d
        Roles(d, entities) ==
            TargetLike(ActorLike(d, RoleFilter(entities,
                                               {"actor", "subject", "person"})),
                       RoleFilter(entities, {"object", "target"}))
        Targets(d) ==
            IF HasList(d, "targets") THEN d
            ELSE Roles(d, Get(d, "entities", <<>>))
        Metadata(d) ==
            ("metadata" :> (Get(d, "metadata", EmptyDict)
                                @@ Restrict(d, (DOMAIN d) \ EventKeys)))
                @@ Restrict(d, EventKeys)
    IN  Metadata(Targets(Actors(Summary(Action(Timestamp(EventId(values)))))))

\* GeminiEvent(**values): event_id is read from its alias "id" and from its
\* own name only when the alias is absent
ParseEvent(values, offset) ==
    LET Entities(raw) == [i \in DOMAIN raw |-> ParseEntity(raw[i])]
        Fields(data, ts) ==
            [ok |-> ts.ok,
             event |->
                [event_id  |-> IF "id" \in DOMAIN data THEN data.id
                               ELSE data.event_id,
                 timestamp |-> ts.value,
                 action    |-> data.action,
                 summary   |-> data.summary,
                 actors    |-> Entities(Get(data, "actors", <<>>)),
                 targets   |-> Entities(Get(data, "targets", <<>>)),
                 metadata  |-> data.metadata]]
        Validate(data) == Fields(data, CoerceTimestamp(data.timestamp, offset))
    IN  Validate(NormaliseEvent(values))

PayloadKeys == {"events", "timeline", "entries", "metadata"}

NormalisePayload(values) ==
    LET Events(d) ==
            SetDefault(d, "events",
                       IF HasList(d, "timeline") THEN d.timeline
                       ELSE IF HasList(d, "entries") THEN d.entries
                       ELSE <<>>)
        Metadata(d) ==
            ("metadata" :> (Get(d, "metadata", EmptyDict)
                                @@ Restrict(d, (DOMAIN d) \ PayloadKeys)))
                @@ Restrict(d, PayloadKeys)
    IN  Metadata(Events(values))

\* parse_obj as it would be if an event that fails validation were skipped
ParsePayloadSkipping(obj, offset) ==
    LET Events(raw) == [i \in DOMAIN raw |-> ParseEvent(raw[i], offset)]
        Valid(parsed) == SelectSeq(parsed, LAMBDA r : r.ok)
        Fields(data, valid) ==
            [ok |-> TRUE,
             events |-> [i \in DOMAIN valid |-> valid[i].event],
             metadata |-> data.metadata]
        Validate(data) == Fields(data, Valid(Events(data.events)))
    IN  IF ~obj.isObject
        THEN [ok |-> TRUE, events |-> <<>>, metadata |-> EmptyDict]
        ELSE Validate(NormalisePayload(obj.value))

\* GeminiPayload.parse_obj(obj): a value that is no mapping, or one event
\* that fails validation, fails the whole payload
ParsePayload(obj, offset) ==
    LET Events(raw) == [i \in DOMAIN raw |-> ParseEvent(raw[i], offset)]
        Fields(data, parsed) ==
            [ok |-> \A i \in DOMAIN parsed : parsed[i].ok,
             events |-> [i \in DOMAIN parsed |-> parsed[i].event],
             metadata |-> data.metadata]
        Validate(data) == Fields(data, Events(data.events))
    IN  IF ~obj.isObject
        THEN [ok |-> FALSE, events |-> <<>>, metadata |-> EmptyDict]
        ELSE Validate(NormalisePayload(obj.value))

(***************************************************************************)
(* resolver.py: resolve_identity                                           *)
(*                                                                         *)
(* A profile bucket is the sequence of its profile dicts in dict order;    *)
(* _normalise_section keys every profile by its own "id".  An appearance   *)
(* or attribute value is [list, v]: a list of strings, or a string held as *)
(* the one element of v.                                                   *)
(***************************************************************************)
S_person == <<"p", "e", "r", "s", "o", "n">>

S_object == <<"o", "b", "j", "e", "c", "t">>

S_unknown == <<"u", "n", "k", "n", "o", "w", "n">>

S_entity == <<"e", "n", "t", "i", "t", "y">>

\* the (bucket_name, bucket) pairs of lines 84-88, in order
BucketOrder ==
    <<[key |-> "person", name |-> S_person],
      [key |-> "object", name |-> S_object],
      [key |-> "unknown", name |-> S_unknown]>>

\* lines 83-98: the preferred bucket and the canonical type
SelectBucket(entity) ==
    LET Match(entity_type, hits) ==
            IF hits = {}
            THEN [key |-> "unknown",
                  canonical_type |-> OrStr(entity_type, S_unknown)]
            ELSE [key |-> BucketOrder[CHOOSE i \in hits :
                                        \A j \in hits : i <= j].key,
                  canonical_type |-> BucketOrder[CHOOSE i \in hits :
                                        \A j \in hits : i <= j].name]
        Select(entity_type) ==
            Match(entity_type,
                  {i \in DOMAIN BucketOrder :
                     StartsWith(entity_type, SubSeq(BucketOrder[i].name, 1, 3))})
    IN  Select(Lower(OrStr(entity.type, S_unknown)))

\* the profile of bucket keyed by id
Lookup(bucket, id) ==
    bucket[CHOOSE i \in DOMAIN bucket : bucket[i].id = id]

BucketIds(bucket) == {bucket[i].id : i \in DOMAIN bucket}

\* the profiles the loops of lines 107 and 141 visit, in order
ScanOrder(store, key) == store[key] \o store.person \o store.object

Items(value) == {value.v[i] : i \in DOMAIN value.v}

\* lines 126-134: one appearance key of the entity against the profile's
AppearanceScore(value, profile_value) ==
    IF value.list /\ profile_value.list
    THEN Cardinality(Items(value) \cap Items(profile_value))
    ELSE IF value.list
    THEN (IF profile_value.v[1] \in Items(value) THEN 1 ELSE 0)
    ELSE IF profile_value.list
    THEN (IF value.v[1] \in Items(profile_value) THEN 1 ELSE 0)
    ELSE (IF Lower(value.v[1]) = Lower(profile_value.v[1]) THEN 1 ELSE 0)

\* lines 122-134: the loop over the entity's appearance keys
RECURSIVE AppearanceSum(_, _, _)
AppearanceSum(keys, appearance, profile_appearance) ==
    IF keys = {} THEN 0
    ELSE LET key == CHOOSE k \in keys : TRUE
             rest == AppearanceSum(keys \ {key}, appearance, profile_appearance)
         IN  IF key \in DOMAIN profile_appearance
             THEN rest + AppearanceScore(appearance[key], profile_appearance[key])
             ELSE rest

\* lines 136-138: the loop over the entity's attribute keys
RECURSIVE AttributeSum(_, _, _)
AttributeSum(keys, attributes, profile_attributes) ==
    IF keys = {} THEN 0
    ELSE LET key == CHOOSE k \in keys : TRUE
             rest == AttributeSum(keys \ {key}, attributes, profile_attributes)
         IN  IF /\ key \in DOMAIN profile_attributes
                /\ profile_attributes[key] = attributes[key]
             THEN rest + 1
             ELSE rest

\* score_profile, lines 119-139
ScoreProfile(entity, profile) ==
    AppearanceSum(DOMAIN entity.appearance, entity.appearance,
                  Get(profile, "appearance", EmptyDict))
    + AttributeSum(DOMAIN entity.attributes, entity.attributes,
                   Get(profile, "attributes", EmptyDict))

\* the comparison of line 144 with >= for >
BetterOrEqual(score, best_score) == score >= best_score /\ score > 0

\* the comparison of line 144
Better(score, best_score) == score > best_score /\ score > 0

\* lines 141-146: best is 0 (no match yet) or the index of the best match
RECURSIVE BestMatch(_, _, _, _, _)
BestMatch(entity, scan, i, best, best_score) ==
    IF i > Len(scan) THEN best
    ELSE LET score == ScoreProfile(entity, scan[i])
         IN  IF Better(score, best_score)
             THEN BestMatch(entity, scan, i + 1, i, score)
             ELSE BestMatch(entity, scan, i + 1, best, best_score)

IsSpace(c) == c \in {" ", "\t", "\n"}

\* s.split(): the maximal runs of non-whitespace characters
RECURSIVE Split(_, _, _)
Split(s, i, word) ==
    IF i > Len(s) THEN (IF word = <<>> THEN <<>> ELSE <<word>>)
    ELSE IF IsSpace(s[i])
         THEN (IF word = <<>> THEN <<>> ELSE <<word>>) \o Split(s, i + 1, <<>>)
         ELSE Split(s, i + 1, Append(word, s[i]))

\* "_".join(words)
RECURSIVE JoinUnderscore(_)
JoinUnderscore(words) ==
    IF words = <<>> THEN <<>>
    ELSE IF Len(words) = 1 THEN words[1]
    ELSE words[1] \o <<"_">> \o JoinUnderscore(Tail(words))

\* lines 153-157; hex is uuid4().hex[:8]
GeneratedId(entity, canonical_type, hex) ==
    LET Slug(base) == JoinUnderscore(Split(Lower(base), 1, <<>>))
        Base(named) == IF Split(named, 1, <<>>) = <<>> THEN S_entity ELSE named
    IN  IF TruthyStr(entity.entity_id) THEN entity.entity_id
        ELSE Slug(Base(OrStr(OrStr(OrStr(entity.name, entity.type),
                                   canonical_type), S_entity)))
                \o <<"_">> \o hex

\* the first profile of scan whose stored name is lookup, 0 if none
NameMatch(scan, lookup) ==
    LET hits == {i \in DOMAIN scan : Lower(Get(scan[i], "name", <<>>)) = lookup}
    IN  IF hits = {} THEN 0 ELSE CHOOSE i \in hits : \A j \in hits : i <= j

\* resolve_identity, lines 80-166; store is IDENTITY_PROFILES.  The result
\* carries the store as the call leaves it: every profile handed out is a
\* dict(...) copy, so setdefault never writes to the store.
ResolveIdentity(entity, store, hex) ==
    LET Found(profile, canonical_type, step) ==
            [id |-> profile.id,
             profile |-> SetDefault(profile, "type", canonical_type),
             step |-> step, store |-> store]
        New(generated_id, canonical_type) ==
            [id |-> generated_id,
             profile |-> [id |-> generated_id,
                          name |-> entity.name,
                          type |-> OrStr(OrStr(canonical_type, entity.type),
                                         S_unknown),
                          appearance |-> entity.appearance,
                          attributes |-> entity.attributes],
             step |-> "new", store |-> store]
        Similar(scan, canonical_type, best) ==
            IF best # 0 THEN Found(scan[best], canonical_type, "similarity")
            ELSE New(GeneratedId(entity, canonical_type, hex), canonical_type)
        Named(scan, canonical_type, byName) ==
            IF byName # 0 THEN Found(scan[byName], canonical_type, "name")
            ELSE Similar(scan, canonical_type, BestMatch(entity, scan, 1, 0, 0))
        Known(preferred_bucket, scan, canonical_type) ==
            IF /\ TruthyStr(entity.entity_id)
               /\ entity.entity_id \in BucketIds(preferred_bucket)
            THEN Found(Lookup(preferred_bucket, entity.entity_id),
                       canonical_type, "id")
            ELSE Named(scan, canonical_type,
                       IF TruthyStr(entity.name)
                       THEN NameMatch(scan, Lower(entity.name)) ELSE 0)
        Resolve(sel) ==
            Known(store[sel.key], ScanOrder(store, sel.key), sel.canonical_type)
    IN  Resolve(SelectBucket(entity))

\* _build_event_actor, lines 169-183
BuildEventActor(entity, store, hex) ==
    LET Build(entity_id, profile) ==
            [entity_id  |-> entity_id,
             name       |-> OrStr(Get(profile, "name", NoneStr), entity.name),
             type       |-> OrStr(OrStr(Get(profile, "type", NoneStr),
                                        entity.type), S_unknown),
             appearance |-> Update(Get(profile, "appearance", EmptyDict),
                                   entity.appearance),
             attributes |-> Update(Get(profile, "attributes", EmptyDict),
                                   entity.attributes)]
        Resolved(r) == Build(r.id, r.profile)
    IN  Resolved(ResolveIdentity(entity, store, hex))

(***************************************************************************)
(* state_store.py                                                          *)
(***************************************************************************)
\* SceneState()
EmptyState == [timeline |-> <<>>, world_state |-> EmptyDict]

\* no file at STATE_PATH
NoFile == [exists |-> FALSE, timeline |-> <<>>, world_state |-> EmptyDict]

\* state.json(...): every datetime is written in its ISO form
Serialise(state) ==
    [exists |-> TRUE,
     timeline |-> [i \in DOMAIN state.timeline |->
                      [state.timeline[i] EXCEPT !.timestamp = IsoFormat(@)]],
     world_state |-> [id \in DOMAIN state.world_state |->
                      [state.world_state[id] EXCEPT !.last_updated = IsoFormat(@)]]]

\* a write that keeps the events and entities only the old document holds
WriteTextKeeping(old, serialised) ==
    LET new_ids == {serialised.timeline[i].id : i \in DOMAIN serialised.timeline}
        kept == SelectSeq(old.timeline, LAMBDA e : e.id \notin new_ids)
    IN  [exists |-> TRUE,
         timeline |-> kept \o serialised.timeline,
         world_state |-> serialised.world_state @@ old.world_state]

\* path.write_text(serialised): the new document replaces the old one
WriteText(old, serialised) == serialised

\* save_state, lines 34-39
SaveState(state, old) == WriteText(old, Serialise(state))

\* load_state, lines 15-31: pydantic reads every datetime back from its
\* ISO form; a document it cannot read gives an empty state
LoadState(doc) ==
    IF ~doc.exists THEN EmptyState
    ELSE LET readable ==
                 /\ \A i \in DOMAIN doc.timeline :
                        FromIsoFormat(ReplaceZ(doc.timeline[i].timestamp)).ok
                 /\ \A id \in DOMAIN doc.world_state :
                        FromIsoFormat(ReplaceZ(doc.world_state[id].last_updated)).ok
         IN  IF ~readable THEN EmptyState
             ELSE [timeline |-> [i \in DOMAIN doc.timeline |->
                        [doc.timeline[i] EXCEPT
                            !.timestamp = FromIsoFormat(ReplaceZ(@)).value]],
                   world_state |-> [id \in DOMAIN doc.world_state |->
                        [doc.world_state[id] EXCEPT
                            !.last_updated = FromIsoFormat(ReplaceZ(@)).value]]]

(***************************************************************************)
(* resolver.py: _update_world_state and ingest                             *)
(***************************************************************************)
S_observation == <<"o", "b", "s", "e", "r", "v", "a", "t", "i", "o", "n">>

S_event == <<"e", "v", "e", "n", "t">>

\* an absent Optional[EventActor]
NoneActor ==
    [entity_id |-> NoneStr, name |-> NoneStr, type |-> NoneStr,
     appearance |-> EmptyDict, attributes |-> EmptyDict]

\* datetime.__lt__ raises TypeError between a naive and an aware value
Comparable(a, b) == a.aware = b.aware

\* sorting raises TypeError as soon as the list holds both kinds
SortRaises(events) ==
    \E i, j \in DOMAIN events :
        ~Comparable(events[i].timestamp, events[j].timestamp)

\* an insertion that keeps one entry per timestamp
InsertReplacingTies(sorted, e) ==
    LET kept == SelectSeq(sorted, LAMBDA x : x.timestamp.t # e.timestamp.t)
        k == Cardinality({i \in DOMAIN kept :
                            kept[i].timestamp.t <= e.timestamp.t})
    IN  SubSeq(kept, 1, k) \o <<e>> \o SubSeq(kept, k + 1, Len(kept))

\* the place of e in a sorted list: after every entry that is not later
InsertByTimestamp(sorted, e) ==
    LET k == Cardinality({i \in DOMAIN sorted :
                            sorted[i].timestamp.t <= e.timestamp.t})
    IN  SubSeq(sorted, 1, k) \o <<e>> \o SubSeq(sorted, k + 1, Len(sorted))

\* sorted(events, key=lambda entry: entry.timestamp): stable
RECURSIVE SortByTimestamp(_)
SortByTimestamp(events) ==
    IF events = <<>> THEN <<>>
    ELSE InsertByTimestamp(SortByTimestamp(SubSeq(events, 1, Len(events) - 1)),
                           events[Len(events)])

\* lines 204-207: the observation's keys are written over the known ones
MergeMapping(existing, observed) ==
    IF observed # EmptyDict THEN Update(existing, observed) ELSE existing

\* an update that moves last_event_id only forward in time
UpdateParticipantIfNewer(world_state, participant, event) ==
    IF participant.entity_id \notin DOMAIN world_state
    THEN (participant.entity_id :>
            [entity_id     |-> participant.entity_id,
             name          |-> participant.name,
             type          |-> participant.type,
             appearance    |-> participant.appearance,
             attributes    |-> participant.attributes,
             last_event_id |-> event.id,
             last_updated  |-> event.timestamp]) @@ world_state
    ELSE LET existing == world_state[participant.entity_id]
             newer == existing.last_updated.t <= event.timestamp.t
         IN  [world_state EXCEPT ![participant.entity_id] =
                [existing EXCEPT
                    !.appearance = MergeMapping(@, participant.appearance),
                    !.attributes = MergeMapping(@, participant.attributes),
                    !.last_event_id = IF newer THEN event.id ELSE @,
                    !.last_updated = IF newer THEN event.timestamp ELSE @]]

\* lines 188-209, for one participant
UpdateParticipant(world_state, participant, event) ==
    IF participant.entity_id \notin DOMAIN world_state
    THEN (participant.entity_id :>
            [entity_id     |-> participant.entity_id,
             name          |-> participant.name,
             type          |-> participant.type,
             appearance    |-> participant.appearance,
             attributes    |-> participant.attributes,
             last_event_id |-> event.id,
             last_updated  |-> event.timestamp]) @@ world_state
    ELSE LET existing == world_state[participant.entity_id]
         IN  [world_state EXCEPT ![participant.entity_id] =
                [entity_id     |-> existing.entity_id,
                 name          |-> IF TruthyStr(participant.name)
                                   THEN participant.name ELSE existing.name,
                 type          |-> IF TruthyStr(participant.type)
                                   THEN participant.type ELSE existing.type,
                 appearance    |-> MergeMapping(existing.appearance,
                                                participant.appearance),
                 attributes    |-> MergeMapping(existing.attributes,
                                                participant.attributes),
                 last_event_id |-> event.id,
                 last_updated  |-> event.timestamp]]

\* _update_world_state: the actor, then the target
UpdateWorldState(world_state, event) ==
    LET Actor(ws) == IF event.actor # NoneActor
                     THEN UpdateParticipant(ws, event.actor, event) ELSE ws
        Target(ws) == IF event.target # NoneActor
                      THEN UpdateParticipant(ws, event.target, event) ELSE ws
    IN  Target(Actor(world_state))

\* the values uuid4().hex[:4] and uuid4().hex[:8] are drawn from
HexSuffixes == {<<"a", "1">>, <<"b", "2">>}

\* the loop of lines 226-227 as an if: one suffix, not checked again
UniqueIdsOnce(event_id, existing_ids) ==
    IF event_id \notin existing_ids THEN {event_id}
    ELSE {event_id \o <<"-">> \o hex : hex \in HexSuffixes}

\* lines 226-227: every id the while loop can end with
RECURSIVE UniqueIds(_, _)
UniqueIds(event_id, existing_ids) ==
    IF event_id \notin existing_ids THEN {event_id}
    ELSE UNION {UniqueIds(event_id \o <<"-">> \o hex, existing_ids) :
                    hex \in HexSuffixes}

\* line 225
WantedId(raw_event, index) ==
    OrStr(raw_event.event_id,
          S_event \o <<"-">> \o IsoText(IsoFormat(raw_event.timestamp))
                  \o <<"-">> \o StrInt(index))

\* lines 236-237: the first listed entity, resolved
Participants(entities, store) ==
    IF entities = <<>> THEN {NoneActor}
    ELSE {BuildEventActor(entities[1], store, hex) : hex \in HexSuffixes}

\* lines 224-250, from the i-th event of the sorted batch on: every state
\* the loop can end in.  claimed is history: per event, the id it asked
\* for, the id it got, and the world state once it was merged
RECURSIVE MergeEvents(_, _, _, _, _)
MergeEvents(ordered, i, payload_metadata, store, acc) ==
    LET Claim(raw_event, wanted, event, world) ==
            [timeline |-> Append(acc.timeline, event),
             world_state |-> world,
             existing_ids |-> acc.existing_ids \cup {event.id},
             claimed |-> Append(acc.claimed,
                            [wanted |-> wanted, got |-> event.id,
                             raw |-> raw_event, event |-> event,
                             world |-> world])]
        Merge(raw_event, wanted, event) ==
            Claim(raw_event, wanted, event,
                  UpdateWorldState(acc.world_state, event))
        Build(raw_event, wanted) ==
            UNION {
                MergeEvents(ordered, i + 1, payload_metadata, store,
                    Merge(raw_event, wanted,
                          [id |-> event_id,
                           timestamp |-> raw_event.timestamp,
                           action |-> OrStr(OrStr(raw_event.action,
                                                  Get(raw_event.metadata,
                                                      "action", NoneStr)),
                                            S_observation),
                           summary |-> raw_event.summary,
                           actor |-> actor,
                           target |-> target,
                           metadata |-> Update(Update(EmptyDict,
                                                      payload_metadata),
                                               raw_event.metadata)])) :
                event_id \in UniqueIds(wanted, acc.existing_ids),
                actor \in Participants(raw_event.actors, store),
                target \in Participants(raw_event.targets, store)}
    IN  IF i > Len(ordered) THEN {acc}
        ELSE Build(ordered[i], WantedId(ordered[i], i - 1))

\* lines 220-252 on a loaded state: the TypeError of either sort ends the
\* call before save_state
MergeResults(payload, state, store) ==
    IF SortRaises(payload.events)
    THEN {[outcome |-> "TypeError", state |-> state, claimed |-> <<>>]}
    ELSE LET ordered_events == SortByTimestamp(payload.events)
             start == [timeline |-> state.timeline,
                       world_state |-> state.world_state,
                       existing_ids |-> {state.timeline[i].id :
                                            i \in DOMAIN state.timeline},
                       claimed |-> <<>>]
         IN  {IF SortRaises(acc.timeline)
              THEN [outcome |-> "TypeError", state |-> state, claimed |-> <<>>]
              ELSE [outcome |-> "ok",
                    state |-> [timeline |-> SortByTimestamp(acc.timeline),
                               world_state |-> acc.world_state],
                    claimed |-> acc.claimed] :
              acc \in MergeEvents(ordered_events, 1, payload.metadata, store, start)}

\* ingest, lines 212-254: every way the call can end on document doc
IngestResults(obj, doc, store, offset) ==
    LET Run(payload) ==
            IF ~payload.ok
            THEN {[outcome |-> "ValueError", state |-> EmptyState,
                   claimed |-> <<>>, doc |-> doc]}
            ELSE {[outcome |-> r.outcome, state |-> r.state,
                   claimed |-> r.claimed,
                   doc |-> IF r.outcome = "ok" THEN SaveState(r.state, doc)
                           ELSE doc] :
                  r \in MergeResults(payload, LoadState(doc), store)}
    IN  Run(ParsePayload(obj, offset))

(***************************************************************************)
(* Bounds and inputs                                                       *)
(***************************************************************************)
\* events per payload
MaxBatch == 2

\* events in the persisted timeline
MaxTimeline == 3

\* the UTC offsets the process may run under
LocalOffsets == {0, 1}

TsInt(n) == [kind |-> "int", n |-> n, suffix |-> ""]

TsIso(n, suffix) == [kind |-> "iso", n |-> n, suffix |-> suffix]

\* a string that is no ISO-8601 time, such as "yesterday"
TsText == [kind |-> "text", n |-> 0, suffix |-> ""]

\* d with key k set, unless v is None
With(d, k, v) == IF v = NoneStr THEN d ELSE (k :> v) @@ d

SeqsUpTo(S, n) == UNION {[1..k -> S] : k \in 0..n}

Object(value) == [isObject |-> TRUE, value |-> value]

\* a payload that is no mapping, such as 5
NotAnObject == [isObject |-> FALSE, value |-> EmptyDict]

\* the three profile buckets, none holding a profile
EmptyStore == [person |-> <<>>, object |-> <<>>, unknown |-> <<>>]

S_e1 == <<"e", "1">>

RawTimestamps == {TsInt(1), TsIso(1, "Z"), TsText}

ClockEvents ==
    {With([timestamp |-> ts], "id", id) :
        ts \in RawTimestamps, id \in {NoneStr, S_e1}}

Payloads ==
    {Object([events |-> es]) : es \in SeqsUpTo(ClockEvents, MaxBatch)}
        \cup {NotAnObject}

(***************************************************************************)
(* One ingest call at a time                                               *)
(***************************************************************************)
NoCall ==
    [op |-> "none", input |-> NotAnObject, outcome |-> "none",
     before |-> NoFile, returned |-> EmptyState, claimed |-> <<>>]

Idle == [c \in {1, 2} |-> "idle"]

NoLocal ==
    [c \in {1, 2} |->
        [input |-> NotAnObject, state |-> EmptyState, outcome |-> "none",
         seen |-> 0, order |-> 0]]

\* the number of events obj asks to add
BatchSize(obj) ==
    IF obj.isObject THEN Len(NormalisePayload(obj.value).events) ELSE 0

\* ingest(gemini_json), run from its first line to its return or raise
Ingest(obj) ==
    /\ Len(disk.timeline) + BatchSize(obj) <= MaxTimeline
    /\ \E r \in IngestResults(obj, disk, profiles, tz) :
        /\ disk' = r.doc
        /\ call' = [op |-> "ingest", input |-> obj, outcome |-> r.outcome,
                    before |-> disk, returned |-> r.state,
                    claimed |-> r.claimed]
    /\ UNCHANGED <<profiles, tz, pc, local>>

Init ==
    /\ profiles = EmptyStore
    /\ tz \in LocalOffsets
    /\ disk = NoFile
    /\ call = NoCall
    /\ pc = Idle
    /\ local = NoLocal

Next == \E obj \in Payloads : Ingest(obj)

Spec == Init /\ [][Next]_vars

(***************************************************************************)
(* One ingest call at a time, on events that name participants             *)
(***************************************************************************)
\* a str held as an appearance or attribute value
Scalar(s) == [list |-> FALSE, v |-> <<s>>]

\* a list of str held as an appearance or attribute value
List(items) == [list |-> TRUE, v |-> items]

S_p1 == <<"p", "1">>

S_o1 == <<"o", "1">>

S_red == <<"r", "e", "d">>

S_blue == <<"b", "l", "u", "e">>

S_calm == <<"c", "a", "l", "m">>

S_shy == <<"s", "h", "y">>

S_open == <<"o", "p", "e", "n">>

S_cam == <<"c", "a", "m">>

\* {"person": {"p1": {"name": "Bob", "appearance": {"hair": "blue"}, ...}}}
BobStore ==
    [person |-> <<[id |-> S_p1, name |-> <<"B", "o", "b">>,
                   appearance |-> [hair |-> Scalar(S_blue)],
                   attributes |-> [mood |-> Scalar(S_shy)]]>>,
     object |-> <<>>,
     unknown |-> <<>>]

Red == [id |-> S_p1, type |-> S_person, appearance |-> [hair |-> Scalar(S_red)]]

Bare == [id |-> S_p1, type |-> S_person]

Bob == [name |-> <<"b", "o", "b">>, type |-> <<"P", "e", "r", "s", "o", "n">>,
        attributes |-> [mood |-> Scalar(S_calm)]]

Door == [id |-> S_o1, type |-> S_object, state |-> [door |-> Scalar(S_open)]]

WorldEvents ==
    {[timestamp |-> TsInt(1), actors |-> <<Bob>>],
     [timestamp |-> TsInt(1), actors |-> <<Bare>>],
     [timestamp |-> TsInt(1), actors |-> <<Red>>],
     [timestamp |-> TsInt(2), actors |-> <<Red>>],
     [timestamp |-> TsInt(2), actors |-> <<Bare>>, targets |-> <<Door>>,
      verb |-> S_open]}

WorldPayloads ==
    {Object([events |-> es, source |-> S_cam]) :
        es \in SeqsUpTo(WorldEvents, MaxBatch)}

InitWorld ==
    /\ profiles \in {EmptyStore, BobStore}
    /\ tz = 0
    /\ disk = NoFile
    /\ call = NoCall
    /\ pc = Idle
    /\ local = NoLocal

NextWorld == \E obj \in WorldPayloads : Ingest(obj)

SpecWorld == InitWorld /\ [][NextWorld]_vars

(***************************************************************************)
(* Properties of one-at-a-time ingestion                                   *)
(***************************************************************************)
\* the events of the last call's payload, as given
GivenEvents == IF call.input.isObject THEN call.input.value.events ELSE <<>>

\* the shapes section 3 of the specification accepts for a timestamp
AcceptedShape(ts) == ts.kind \in {"int", "iso", "datetime"}

Ids(timeline) == {timeline[i].id : i \in DOMAIN timeline}

\* ascending by timestamp, for the datetimes of a state and for the ISO
\* strings of a document alike
Ascending(timeline, Second(_), Zone(_)) ==
    \A i, j \in DOMAIN timeline :
        i < j => /\ Zone(timeline[i].timestamp) = Zone(timeline[j].timestamp)
                 /\ Second(timeline[i].timestamp) <= Second(timeline[j].timestamp)

StateAscending(timeline) ==
    Ascending(timeline, LAMBDA dt : dt.t, LAMBDA dt : dt.aware)

DocAscending(timeline) ==
    Ascending(timeline, LAMBDA iso : iso.n, LAMBDA iso : iso.suffix)

\* C2: after every ingest call whose events all carry a timestamp of an
\* accepted shape (an epoch number, an ISO-8601 string with or without a
\* trailing Z), ingest returns and persists a timeline sorted ascending by
\* timestamp.
TimelineSortedAfterEveryIngest ==
    (/\ call.op = "ingest"
     /\ call.input.isObject
     /\ \A i \in DOMAIN GivenEvents : AcceptedShape(GivenEvents[i].timestamp))
    => /\ call.outcome = "ok"
       /\ StateAscending(call.returned.timeline)
       /\ DocAscending(disk.timeline)
       /\ Len(disk.timeline) = Len(call.before.timeline) + Len(GivenEvents)

\* C3: no two events of the persisted timeline share an id; in a call, an
\* event whose id (the raw id, else the synthesized one) nobody holds yet
\* keeps it unchanged, and every later claimant gets that id with a suffix
\* appended.
EventIdsUnique ==
    /\ \A i, j \in DOMAIN disk.timeline :
            i # j => disk.timeline[i].id # disk.timeline[j].id
    /\ call.outcome = "ok" =>
        \A k \in DOMAIN call.claimed :
            LET c == call.claimed[k]
                taken == Ids(call.before.timeline)
                            \cup {call.claimed[j].got : j \in 1..(k - 1)}
            IN  /\ TruthyStr(c.raw.event_id) => c.wanted = c.raw.event_id
                /\ c.got \in Ids(disk.timeline)
                /\ IF c.wanted \notin taken
                   THEN c.got = c.wanted
                   ELSE /\ c.got \notin taken
                        /\ StartsWith(c.got, c.wanted \o <<"-">>)
                        /\ Len(c.got) > Len(c.wanted) + 1

\* a call whose two events both ask for a raw id the timeline already holds
EventIdsUniqueWitness ==
    /\ call.outcome = "ok"
    /\ Len(call.claimed) = 2
    /\ call.claimed[1].wanted = call.claimed[2].wanted
    /\ TruthyStr(call.claimed[1].raw.event_id)
    /\ call.claimed[1].wanted \in Ids(call.before.timeline)
    /\ Cardinality(Ids(disk.timeline)) = 3

\* the payload is no object, or one of its events has a timestamp in none
\* of the accepted shapes
Uninterpretable(obj) ==
    \/ ~obj.isObject
    \/ \E i \in DOMAIN obj.value.events :
            ~AcceptedShape(Get(obj.value.events[i], "timestamp", NoneTs))

\* C4: an ingest call whose payload is no object, or holds one event with a
\* timestamp in none of the accepted shapes, fails, and the persisted state
\* is what it was before the call: no event of the batch is added.
AllOrNothing ==
    (call.op = "ingest" /\ Uninterpretable(call.input))
    => /\ call.outcome = "ValueError"
       /\ disk = call.before

\* a failed call on a non-empty timeline whose bad event follows a good one
AllOrNothingWitness ==
    /\ call.outcome = "ValueError"
    /\ Len(GivenEvents) = 2
    /\ AcceptedShape(GivenEvents[1].timestamp)
    /\ ~AcceptedShape(GivenEvents[2].timestamp)
    /\ call.before.timeline # <<>>
    /\ disk = call.before

(***************************************************************************)
(* Properties of the world state                                           *)
(***************************************************************************)
\* the world state the k-th event of the last call was merged into
WorldBefore(k) ==
    IF k = 1 THEN LoadState(call.before).world_state
    ELSE call.claimed[k - 1].world

\* the entities of the k-th event's payload that were resolved to id
Observed(k, id) ==
    LET c == call.claimed[k]
    IN  (IF c.event.actor.entity_id = id THEN {c.raw.actors[1]} ELSE {})
        \cup (IF c.event.target.entity_id = id THEN {c.raw.targets[1]} ELSE {})

\* the keys of known that no entity in observed carries keep their value
KeptWhereAbsent(known, merged, observed, Field(_)) ==
    \A key \in DOMAIN Field(known) :
        (\A entity \in observed : key \notin DOMAIN Field(entity))
        => /\ key \in DOMAIN Field(merged)
           /\ Field(merged)[key] = Field(known)[key]

\* C1: when an event is merged into a world state that already knows one of
\* its entities, every appearance key and every attribute key the entity
\* held and that is absent from the observed input entity is still there
\* with the same value, whatever the profile store holds.
MergeMonotone ==
    call.outcome = "ok" =>
        \A k \in DOMAIN call.claimed :
            \A id \in DOMAIN WorldBefore(k) :
                Observed(k, id) # {} =>
                    /\ KeptWhereAbsent(WorldBefore(k)[id], call.claimed[k].world[id],
                                       Observed(k, id), LAMBDA e : e.appearance)
                    /\ KeptWhereAbsent(WorldBefore(k)[id], call.claimed[k].world[id],
                                       Observed(k, id), LAMBDA e : e.attributes)

\* C5: a successful call leaves every event the persisted timeline held in
\* it, unchanged in every field, and adds one event per event of the payload.
AppendOnly ==
    call.outcome = "ok" =>
        /\ Len(disk.timeline) = Len(call.before.timeline) + Len(GivenEvents)
        /\ \A i \in DOMAIN call.before.timeline :
                \E j \in DOMAIN disk.timeline :
                    disk.timeline[j] = call.before.timeline[i]
        /\ \A i, j \in DOMAIN call.before.timeline :
                i < j =>
                    \E m, n \in DOMAIN disk.timeline :
                        /\ m < n
                        /\ disk.timeline[m] = call.before.timeline[i]
                        /\ disk.timeline[n] = call.before.timeline[j]

\* a call that adds two events, one of them earlier than an event the
\* timeline already held, which names participants and metadata
AppendOnlyWitness ==
    /\ call.outcome = "ok"
    /\ Len(GivenEvents) = 2
    /\ call.before.timeline # <<>>
    /\ call.before.timeline[1].actor # NoneActor
    /\ call.before.timeline[1].metadata # EmptyDict
    /\ disk.timeline[1] # call.before.timeline[1]
    /\ Len(disk.timeline) = 3

\* the places of the timeline's events that have id as actor or target
Touching(timeline, id) ==
    {i \in DOMAIN timeline :
        timeline[i].actor.entity_id = id \/ timeline[i].target.entity_id = id}

Max(S) == CHOOSE x \in S : \A y \in S : y <= x

\* the entity ids the timeline's events name
Named(timeline) ==
    {timeline[i].actor.entity_id : i \in DOMAIN timeline}
        \cup {timeline[i].target.entity_id : i \in DOMAIN timeline}

\* C7 as claimed: for every entity of the world state, last_event_id is the
\* id of the last event of the timestamp-ordered timeline that has the
\* entity as actor or target and last_updated is that event's timestamp;
\* every entity a timeline event names has a world-state entry.
LastEventIsLatestInTimeline ==
    /\ \A id \in DOMAIN disk.world_state :
        LET touching == Touching(disk.timeline, id)
        IN  /\ touching # {}
            /\ disk.world_state[id].last_event_id = disk.timeline[Max(touching)].id
            /\ disk.world_state[id].last_updated
                    = disk.timeline[Max(touching)].timestamp
    /\ Named(disk.timeline) \ {NoneStr} \subseteq DOMAIN disk.world_state

\* C7 as amended: last_event_id is the id of the event that ingest merged
\* last among those naming the entity (the last such event of the latest
\* call that named it, in that call's timestamp order), last_updated is that
\* event's timestamp, and that event is in the timeline; every entity a
\* timeline event names has a world-state entry.
LastEventIsLastMerged ==
    /\ \A id \in DOMAIN disk.world_state :
        \E i \in Touching(disk.timeline, id) :
            /\ disk.world_state[id].last_event_id = disk.timeline[i].id
            /\ disk.world_state[id].last_updated = disk.timeline[i].timestamp
    /\ Named(disk.timeline) \ {NoneStr} \subseteq DOMAIN disk.world_state
    /\ call.outcome = "ok" =>
        \A id \in DOMAIN disk.world_state :
            LET merged == {k \in DOMAIN call.claimed :
                            Touching(<<call.claimed[k].event>>, id) # {}}
            IN  IF merged = {}
                THEN /\ id \in DOMAIN call.before.world_state
                     /\ disk.world_state[id] = call.before.world_state[id]
                ELSE /\ disk.world_state[id].last_event_id
                            = call.claimed[Max(merged)].got
                     /\ disk.world_state[id].last_updated
                            = IsoFormat(call.claimed[Max(merged)].event.timestamp)

\* a call that delivers an event earlier than one the entity already has:
\* the entity's last_event_id is not the timeline's last event naming it
LastEventIsLastMergedWitness ==
    /\ call.outcome = "ok"
    /\ call.before.timeline # <<>>
    /\ \E id \in DOMAIN disk.world_state :
        /\ id \in DOMAIN call.before.world_state
        /\ disk.world_state[id].last_event_id
                # disk.timeline[Max(Touching(disk.timeline, id))].id
        /\ disk.world_state[id].last_event_id
                # call.before.world_state[id].last_event_id

(***************************************************************************)
(* Two ingest calls that may overlap: each caller runs ingest once, and    *)
(* the store is read (load_state) and written (save_state) at two          *)
(* different moments of the call                                           *)
(***************************************************************************)
Callers == {1, 2}

ConcEvents ==
    {[id |-> S_e1, timestamp |-> TsInt(1), actors |-> <<Red>>],
     [timestamp |-> TsInt(2), actors |-> <<Bare>>, targets |-> <<Door>>]}

ConcPayloads ==
    {Object([events |-> es]) : es \in SeqsUpTo(ConcEvents, MaxBatch) \ {<<>>}}

\* the callers that have written the store
Saved == {c \in Callers : local[c].order > 0}

\* lines 215-220: the payload is validated, then the state is loaded
Begin(c, obj) ==
    /\ pc[c] = "idle"
    /\ IF ParsePayload(obj, tz).ok
       THEN /\ pc' = [pc EXCEPT ![c] = "loaded"]
            /\ local' = [local EXCEPT ![c] =
                    [input |-> obj, state |-> LoadState(disk), outcome |-> "none",
                     seen |-> Cardinality(Saved), order |-> 0]]
       ELSE /\ pc' = [pc EXCEPT ![c] = "done"]
            /\ local' = [local EXCEPT ![c] =
                    [input |-> obj, state |-> EmptyState,
                     outcome |-> "ValueError", seen |-> Cardinality(Saved),
                     order |-> 0]]
    /\ UNCHANGED <<profiles, tz, disk, call>>

\* lines 221-254: the batch is merged into the loaded state, which is saved
Finish(c) ==
    /\ pc[c] = "loaded"
    /\ \E r \in MergeResults(ParsePayload(local[c].input, tz), local[c].state,
                             profiles) :
        /\ disk' = IF r.outcome = "ok" THEN SaveState(r.state, disk) ELSE disk
        /\ local' = [local EXCEPT ![c].state = r.state,
                                  ![c].outcome = r.outcome,
                                  ![c].order = IF r.outcome = "ok"
                                               THEN Cardinality(Saved) + 1 ELSE 0]
    /\ pc' = [pc EXCEPT ![c] = "done"]
    /\ UNCHANGED <<profiles, tz, call>>

InitConc ==
    /\ profiles \in {EmptyStore, BobStore}
    /\ tz \in LocalOffsets
    /\ disk = NoFile
    /\ call = NoCall
    /\ pc = Idle
    /\ local = NoLocal

NextConc ==
    \/ \E c \in Callers, obj \in ConcPayloads : Begin(c, obj)
    \/ \E c \in Callers : Finish(c)

SpecConc == InitConc /\ [][NextConc]_vars

\* C10: neither call reports an error; the store holds what the caller that
\* saved last wrote; when that caller loaded before the other one saved, the
\* persisted timeline holds its own batch only, so the events of the call
\* that saved first are lost, and when it loaded after, both batches are
\* there under distinct ids.
LostUpdate ==
    /\ \A c \in Callers : pc[c] = "done" => local[c].outcome = "ok"
    /\ \A first, last \in Callers :
        (local[first].order = 1 /\ local[last].order = 2) =>
            /\ disk = Serialise(local[last].state)
            /\ IF local[last].seen = 0
               THEN /\ Len(disk.timeline) = BatchSize(local[last].input)
                    /\ DOMAIN disk.world_state
                            = Named(local[last].state.timeline) \ {NoneStr}
               ELSE /\ Len(disk.timeline) = BatchSize(local[first].input)
                                                + BatchSize(local[last].input)
                    /\ Cardinality(Ids(disk.timeline)) = Len(disk.timeline)
                    /\ DOMAIN local[first].state.world_state
                            \subseteq DOMAIN disk.world_state

\* both callers loaded before either saved, both returned, and the store
\* lacks an event and an entity of the first saver, whose returned state
\* shares an event id with the last saver's
LostUpdateWitness ==
    \E first, last \in Callers :
        /\ local[first].order = 1
        /\ local[last].order = 2
        /\ local[first].seen = 0
        /\ local[last].seen = 0
        /\ local[first].outcome = "ok"
        /\ local[last].outcome = "ok"
        /\ \E i \in DOMAIN local[first].state.timeline :
                \A j \in DOMAIN disk.timeline :
                    disk.timeline[j]
                        # Serialise(local[first].state).timeline[i]
        /\ DOMAIN local[first].state.world_state \ DOMAIN disk.world_state # {}
        /\ Ids(local[first].state.timeline) \cap Ids(local[last].state.timeline) # {}

(***************************************************************************)
(* resolve_identity on its own: one entity against one profile store       *)
(***************************************************************************)
S_p2 == <<"p", "2">>

S_bob == <<"B", "o", "b">>

S_ann == <<"A", "n", "n">>

ProfileBob ==
    [id |-> S_p1, name |-> S_bob,
     appearance |-> [hair |-> Scalar(S_red)],
     attributes |-> [mood |-> Scalar(S_calm)]]

ProfileAnn ==
    [id |-> S_p2, name |-> S_ann,
     appearance |-> [hair |-> Scalar(S_red), coat |-> List(<<S_red, S_blue>>)],
     attributes |-> [mood |-> Scalar(S_calm)]]

\* an object that carries a person's name
ProfileStatue ==
    [id |-> S_o1, name |-> Lower(S_bob),
     appearance |-> [hair |-> List(<<S_red, S_blue>>)]]

\* an unknown-bucket profile under an id the person bucket also uses
ProfileGhost ==
    [id |-> S_p1, name |-> S_ann, appearance |-> [coat |-> Scalar(S_blue)]]

TwinStore ==
    [person |-> <<ProfileBob, ProfileAnn>>,
     object |-> <<ProfileStatue>>,
     unknown |-> <<ProfileGhost>>]

\* the same profiles, the person bucket in the other order
NiwtStore == [TwinStore EXCEPT !.person = <<ProfileAnn, ProfileBob>>]

ResolveStores == {EmptyStore, TwinStore, NiwtStore}

\* the one-key dicts {k: v} for v in vs, and the empty dict
Opt(k, vs) == {EmptyDict} \cup {k :> v : v \in vs}

ResolveEntities ==
    {id @@ name @@ type @@ appearance @@ attributes :
        id \in Opt("id", {S_p1, S_p2, S_o1}),
        name \in Opt("name", {Lower(S_bob), <<"A", "N", "N">>,
                              <<"N", "e", "w", " ", " ", "G", "u", "y">>}),
        type \in Opt("type", {S_person, <<"P", "e", "r">>, S_object,
                              <<"c", "a", "r">>}),
        appearance \in Opt("appearance",
                           {[hair |-> Scalar(<<"R", "E", "D">>)],
                            [hair |-> List(<<S_red, S_blue>>)],
                            [hair |-> Scalar(S_red), coat |-> List(<<S_blue>>)]}),
        attributes \in Opt("state", {[mood |-> Scalar(S_calm)]})}

\* resolve_identity(entity), from its first line to its return
Resolve ==
    /\ call.op = "pending"
    /\ \E hex \in HexSuffixes :
        LET Return(r) ==
                /\ profiles' = r.store
                /\ call' = [op |-> "resolve", raw |-> call.raw,
                            store |-> profiles, id |-> r.id,
                            profile |-> r.profile, step |-> r.step]
        IN  Return(ResolveIdentity(ParseEntity(call.raw), profiles, hex))
    /\ UNCHANGED <<tz, disk, pc, local>>

InitResolve ==
    /\ profiles \in ResolveStores
    /\ tz = 0
    /\ disk = NoFile
    /\ call \in {[op |-> "pending", raw |-> raw] : raw \in ResolveEntities}
    /\ pc = Idle
    /\ local = NoLocal

NextResolve == Resolve

SpecResolve == InitResolve /\ [][NextResolve]_vars

Least(S) == CHOOSE i \in S : \A j \in S : i <= j

\* the profiles of scan whose stored name is the entity's, case aside
SameName(entity, scan) ==
    {i \in DOMAIN scan :
        /\ TruthyStr(entity.name)
        /\ Lower(Get(scan[i], "name", <<>>)) = Lower(entity.name)}

\* the highest similarity score any profile of scan reaches
TopScore(entity, scan) ==
    Max({ScoreProfile(entity, scan[i]) : i \in DOMAIN scan} \cup {0})

TopScorers(entity, scan) ==
    {i \in DOMAIN scan : ScoreProfile(entity, scan[i]) = TopScore(entity, scan)}

\* what the priority algorithm of the specification picks from store
Priority(entity, store, scan, id) ==
    IF /\ TruthyStr(entity.entity_id)
       /\ entity.entity_id \in BucketIds(store[SelectBucket(entity).key])
    THEN id = entity.entity_id
    ELSE IF SameName(entity, scan) # {}
    THEN id = scan[Least(SameName(entity, scan))].id
    ELSE IF TopScore(entity, scan) > 0
    THEN id = scan[Least(TopScorers(entity, scan))].id
    ELSE IF TruthyStr(entity.entity_id)
    THEN id = entity.entity_id
    ELSE /\ Len(id) > 2
         /\ SubSeq(id, Len(id) - 1, Len(id)) \in HexSuffixes
         /\ \A i \in DOMAIN scan : scan[i].id # id

\* C6: resolve_identity returns the identity of the strict priority
\* algorithm: the entity's id when the bucket selected by its type holds it;
\* else the first profile, in selected bucket, person, object order, whose
\* name equals the entity's case-insensitively; else the earliest of the
\* profiles with the highest nonzero similarity score; else a synthesized
\* identity that reuses the entity's id when it has one.  The profile
\* store is as it was before the call.
ResolvesByPriority ==
    call.op = "resolve" =>
        /\ profiles = call.store
        /\ Priority(ParseEntity(call.raw), call.store,
                    ScanOrder(call.store,
                              SelectBucket(ParseEntity(call.raw)).key),
                    call.id)

\* two different profiles tie on the highest nonzero score and the call
\* returned the earlier one
ResolvesByPriorityWitness ==
    /\ call.op = "resolve"
    /\ call.step = "similarity"
    /\ \E store \in {call.store} :
        \E entity \in {ParseEntity(call.raw)} :
            \E scan \in {ScanOrder(store, SelectBucket(entity).key)} :
                \E i, j \in TopScorers(entity, scan) :
                    /\ i < j
                    /\ scan[i].id # scan[j].id
                    /\ \A k \in TopScorers(entity, scan) : i <= k
                    /\ call.id = scan[i].id

(***************************************************************************)
(* The validators of schemas.py on their own: one raw object at a time     *)
(***************************************************************************)
S_note == <<"n", "o", "t", "e">>

\* the raw timestamp values an event may carry under one key
RawValues == {TsInt(0), TsInt(1), TsIso(2, "Z"), TsText}

\* raw events that differ in where they carry a timestamp
TimedEvents ==
    {timestamp @@ time @@ event_time :
        timestamp \in Opt("timestamp", RawValues),
        time \in Opt("time", RawValues),
        event_time \in Opt("event_time", RawValues)}

\* the metadata mappings an object may arrive with
RawMetadata(key) ==
    Opt("metadata", {EmptyDict, key :> S_note, "note" :> S_note})

\* raw events that carry the key "camera", which GeminiEvent does not know
TaggedEvents ==
    {[timestamp |-> TsInt(1)] @@ camera @@ metadata :
        camera \in Opt("camera", {S_cam}),
        metadata \in RawMetadata("camera")}

\* raw entities that carry the key "mood", which GeminiEntity does not know
TaggedEntities ==
    {[id |-> S_p1] @@ looks @@ mood @@ metadata :
        looks \in Opt("looks", {[hair |-> Scalar(S_red)]}),
        mood \in Opt("mood", {S_calm}),
        metadata \in RawMetadata("mood")}

\* raw payloads that carry the key "source", which GeminiPayload does not know
TaggedPayloads ==
    {events @@ source @@ metadata :
        events \in {[events |-> <<>>],
                    [timeline |-> <<[timestamp |-> TsInt(1)]>>]},
        source \in Opt("source", {S_cam}),
        metadata \in RawMetadata("source")}

RawObjects ==
    {[op |-> "pending", kind |-> "event", raw |-> e] :
        e \in TimedEvents \cup TaggedEvents}
    \cup {[op |-> "pending", kind |-> "entity", raw |-> e] : e \in TaggedEntities}
    \cup {[op |-> "pending", kind |-> "payload", raw |-> p] : p \in TaggedPayloads}

\* GeminiEntity(**raw)
ValidateEntity ==
    /\ call.op = "pending"
    /\ call.kind = "entity"
    /\ call' = [op |-> "validated", kind |-> "entity", raw |-> call.raw,
                ok |-> TRUE, data |-> NormaliseFields(call.raw),
                value |-> ParseEntity(call.raw)]
    /\ UNCHANGED <<profiles, tz, disk, pc, local>>

\* GeminiEvent(**raw)
ValidateEvent ==
    /\ call.op = "pending"
    /\ call.kind = "event"
    /\ call' = [op |-> "validated", kind |-> "event", raw |-> call.raw,
                ok |-> ParseEvent(call.raw, tz).ok,
                data |-> NormaliseEvent(call.raw),
                value |-> ParseEvent(call.raw, tz).event]
    /\ UNCHANGED <<profiles, tz, disk, pc, local>>

\* GeminiPayload.parse_obj(raw)
ValidatePayload ==
    /\ call.op = "pending"
    /\ call.kind = "payload"
    /\ call' = [op |-> "validated", kind |-> "payload", raw |-> call.raw,
                ok |-> ParsePayload(Object(call.raw), tz).ok,
                data |-> NormalisePayload(call.raw),
                value |-> ParsePayload(Object(call.raw), tz)]
    /\ UNCHANGED <<profiles, tz, disk, pc, local>>

InitNorm ==
    /\ profiles = EmptyStore
    /\ tz \in LocalOffsets
    /\ disk = NoFile
    /\ call \in RawObjects
    /\ pc = Idle
    /\ local = NoLocal

NextNorm ==
    \/ ValidateEntity
    \/ ValidateEvent
    \/ ValidatePayload

SpecNorm == InitNorm /\ [][NextNorm]_vars

\* the value under the first of timestamp, time, event_time that raw has
Selected(raw) ==
    IF "timestamp" \in DOMAIN raw THEN raw.timestamp
    ELSE IF "time" \in DOMAIN raw THEN raw.time
    ELSE IF "event_time" \in DOMAIN raw THEN raw.event_time
    ELSE NoneTs

\* C8: the timestamp of a raw event is the value under timestamp if
\* present, else time, else event_time; every number found there, 0
\* included, is accepted and read as epoch seconds, and validation fails
\* only when that value is neither a time value, a number, nor a parseable
\* ISO-8601 string.
TimestampReconciled ==
    (call.op = "validated" /\ call.kind = "event") =>
        /\ Selected(call.raw).kind = "int" =>
                /\ call.ok
                /\ call.value.timestamp
                        = [aware |-> FALSE, t |-> Selected(call.raw).n + tz]
        /\ ~call.ok => Selected(call.raw).kind \notin {"datetime", "int", "iso"}

\* the keys each kind of object recognizes
Recognized(kind) ==
    CASE kind = "entity" -> EntityKeys
      [] kind = "event" -> EventKeys
      [] kind = "payload" -> PayloadKeys

\* C9: every input key of a payload, an event or an entity that is not in
\* the object's recognized set is in the object's metadata after
\* normalization, with the value it came with, also when the object's own
\* metadata mapping already has an entry under that key.
NothingDropped ==
    call.op = "validated" =>
        \A key \in (DOMAIN call.raw) \ Recognized(call.kind) :
            /\ key \in DOMAIN call.data.metadata
            /\ call.data.metadata[key] = call.raw[key]

====
